---- MODULE Spec2Model ----
\* Model of the capacity reconciliation core of the ACS autoscaler:
\* ContainerService (src/autoscaler/container_service.py) driven through the
\* Deployment Serializer (self.deployments), whose code is not part of src/.
EXTENDS Integers, Sequences, FiniteSets, TLC

\* ---------------------------------------------------------------- bounds

\* Largest pool capacity and max_size drawn for a pool.
MaxCap == 2
\* Longest template (resources) and dependsOn list drawn for the Template Mutator.
MaxLen == 3
\* Largest base poll interval (--sleep) drawn for the outer loop.
MaxSleep == 3
\* Longest run of consecutive passes that do not scale.
MaxMisses == 3

\* ---------------------------------------------------------------- program constants

\* @click.option("--sleep", default=60)
DefaultSleep == 60

\* ---------------------------------------------------------------- values

PoolNames == <<"a", "b">>

NSG == "Microsoft.Network/networkSecurityGroups"
VNET == "Microsoft.Network/virtualNetworks"
VM == "Microsoft.Compute/virtualMachines"
NSGEdge == "[concat('Microsoft.Network/networkSecurityGroups/', variables('nsgName'))]"
OtherEdge == "[concat('Microsoft.Network/routeTables/', variables('routeTableName'))]"

None == "None"

Min(a, b) == IF a < b THEN a ELSE b

Range(s) == {s[i] : i \in 1..Len(s)}

\* ---------------------------------------------------------------- strings
\* A string is a sequence of tokens; a separator is a token of its own.

\* str.split(sep): the parts between separators, empty parts kept.
RECURSIVE SplitFrom(_, _, _, _)
SplitFrom(s, sep, i, cur) ==
    IF i > Len(s) THEN <<cur>>
    ELSE IF s[i] = sep THEN <<cur>> \o SplitFrom(s, sep, i + 1, <<>>)
    ELSE SplitFrom(s, sep, i + 1, Append(cur, s[i]))

Split(s, sep) == SplitFrom(s, sep, 1, <<>>)

\* '{}-{}-...'.format(parts): the parts joined by the separator.
RECURSIVE Join(_, _)
Join(parts, sep) ==
    IF Len(parts) = 0 THEN <<>>
    ELSE IF Len(parts) = 1 THEN parts[1]
    ELSE parts[1] \o <<sep>> \o Join(Tail(parts), sep)

\* Mutant of NicName: the ordinal is taken from the last part of the name.
NicNameLastPart(name_parts) ==
    Join(<<name_parts[1], name_parts[2], name_parts[3], <<"nic">>,
           name_parts[Len(name_parts)]>>, "-")

\* '{}-{}-{}-nic-{}'.format(name_parts[0], name_parts[1], name_parts[2], name_parts[3])
NicName(name_parts) ==
    Join(<<name_parts[1], name_parts[2], name_parts[3], <<"nic">>, name_parts[4]>>, "-")

\* vhd.uri.split('/') -> account (host up to the first '.'), container, blob
DiskLocation(uri) ==
    LET storage_infos == Split(uri, "/")
    IN  [account_name |-> Split(storage_infos[3], ".")[1],
         container_name |-> storage_infos[4],
         blob_name |-> storage_infos[5]]

\* ---------------------------------------------------------------- template

\* list.pop(i) with Python's index rules (i counted from 0, negative from the end).
PyPopOk(s, i) == IF i < 0 THEN Len(s) + i >= 0 ELSE i < Len(s)

PyPop(s, i) ==
    LET k == IF i < 0 THEN Len(s) + i + 1 ELSE i + 1
    IN  [j \in 1..(Len(s) - 1) |-> IF j < k THEN s[j] ELSE s[j + 1]]

\* The element list.pop(i) returns.
PyPopped(s, i) == s[IF i < 0 THEN Len(s) + i + 1 ELSE i + 1]

\* for j in range(len(dependencies)): if dependencies[j] == NSGEdge: pop(j); break
FirstEdge(dependencies) ==
    IF \E j \in 1..Len(dependencies) : dependencies[j] = NSGEdge
    THEN (CHOOSE j \in 1..Len(dependencies) :
            /\ dependencies[j] = NSGEdge
            /\ \A k \in 1..(j - 1) : dependencies[k] # NSGEdge) - 1
    ELSE -1

DropEdge(dependencies) ==
    IF FirstEdge(dependencies) < 0 THEN dependencies
    ELSE PyPop(dependencies, FirstEdge(dependencies))

\* Mutant of NsgResourceIndex: the index is one short of the security group's.
NsgResourceIndexOffByOne(resources) ==
    IF \E i \in 1..Len(resources) : resources[i].type = NSG
    THEN (CHOOSE i \in 1..Len(resources) :
            /\ resources[i].type = NSG
            /\ \A k \in (i + 1)..Len(resources) : resources[k].type # NSG) - 2
    ELSE -1

\* nsg_resource_index after the loop: the last security group's index, or -1.
NsgResourceIndex(resources) ==
    IF \E i \in 1..Len(resources) : resources[i].type = NSG
    THEN (CHOOSE i \in 1..Len(resources) :
            /\ resources[i].type = NSG
            /\ \A k \in (i + 1)..Len(resources) : resources[k].type # NSG) - 1
    ELSE -1

\* The loop's effect on the dependsOn lists (in place, before the final pop).
StripEdges(resources) ==
    [i \in 1..Len(resources) |->
        IF resources[i].type = VNET
        THEN [resources[i] EXCEPT !.dependsOn = DropEdge(@)]
        ELSE resources[i]]

\* prepare_template_for_scale_up: the template afterwards and whether pop raised.
prepare_template_for_scale_up(resources) ==
    LET stripped == StripEdges(resources)
        idx == NsgResourceIndex(resources)
    IN  IF PyPopOk(stripped, idx)
        THEN [resources |-> PyPop(stripped, idx), raised |-> FALSE]
        ELSE [resources |-> stripped, raised |-> TRUE]

\* ---------------------------------------------------------------- state

VARIABLES
    is_acs_engine,       \* templated topology (acs-engine) or fixed (ACS)
    deferred,            \* the serializer queues an operation and returns (TRUE)
                         \* or blocks its caller until the operation ended (FALSE)
    agent_pools,         \* self.agent_pools
    node,                \* the node handed to delete_node, with its VM metadata
    arm_template,        \* self.arm_template['resources']
    arm_parameters,      \* self.arm_parameters
    last_mutation,       \* the latest run of prepare_template_for_scale_up
    s_pc,                \* position of the reconciliation pass
    frame,               \* locals of scale_down / scale_pools
    d_pc,                \* position of the thread calling delete_node
    d_frame,             \* locals of delete_node
    queue,               \* operations handed to deployments.deploy, not yet started
    current_deployment,  \* id of the operation holding the serializer, or 0
    inflight,            \* operations executing against the provider
    results,             \* how each ended operation ended
    vm_exists,           \* provider: the node's compute instance exists
    nics_deleted,        \* provider: network interfaces deleted so far
    blobs_deleted,       \* provider: blobs deleted so far
    instance_count,      \* self.instance.agent_pool_profiles[0].count
    faulted,             \* a provider call has failed
    sleep,               \* main: the --sleep option, the base poll interval
    backoff,             \* main: backoff
    scaled,              \* main: what cluster.scale_loop returned
    outcome,             \* how the latest pass ended
    m_pc,                \* position of main in its loop
    slept,               \* the argument of the latest time.sleep
    misses,              \* passes that did not scale since backoff was last set to sleep
    was_reset            \* a pass has scaled and backoff was set back to sleep

vars == <<is_acs_engine, deferred, agent_pools, node, arm_template, arm_parameters,
          last_mutation,
          s_pc, frame, d_pc, d_frame, queue, current_deployment, inflight, results,
          vm_exists, nics_deleted, blobs_deleted, instance_count, faulted,
          sleep, backoff, scaled, outcome, m_pc, slept, misses, was_reset>>

config == <<is_acs_engine, deferred, agent_pools, node>>
provider == <<vm_exists, nics_deleted, blobs_deleted>>
template == <<arm_template, arm_parameters, last_mutation>>
loop == <<sleep, backoff, scaled, outcome, m_pc, slept, misses, was_reset>>

\* ---------------------------------------------------------------- pools

Names(pools) == {pools[i].name : i \in 1..Len(pools)}

PoolOf(pools, name) == pools[CHOOSE i \in 1..Len(pools) : pools[i].name = name]

\* One to Len(PoolNames) pools, each at a capacity from 1 up to the maximum
\* the provider imposes on the pools of the cluster.
PoolConfigs ==
    UNION {
        {p \in [1..n -> [name : Range(PoolNames), actual_capacity : 1..MaxCap,
                         max_size : 1..MaxCap]] :
            \A i \in 1..n : /\ p[i].name = PoolNames[i]
                            /\ p[i].actual_capacity <= p[i].max_size
                            /\ p[i].max_size = p[1].max_size}
        : n \in 1..Len(PoolNames)}

\* Node names follow <orchestrator>-<pool>-<id>-<ordinal>; the second has an
\* extra "vm" part before the ordinal.
K8sA12345N3 == <<"k8s", "-", "a", "-", "12345", "-", "3">>
PoolA12345Vm3 == <<"pool", "-", "a", "-", "12345", "-", "vm", "-", "3">>

\* The nodes delete_node is called for: the name, and the vhd uri the provider
\* reports for the instance's OS disk.
Nodes ==
    {[name |-> K8sA12345N3,
      vhd_uri |-> <<"https:", "/", "/", "acct1", ".", "blob", ".", "net", "/",
                    "vhds", "/", "k8s-a-3-osdisk", ".", "vhd">>],
     [name |-> PoolA12345Vm3,
      vhd_uri |-> <<"https:", "/", "/", "acct2", ".", "blob", ".", "net", "/",
                    "osdisks", "/", "pool-a-3-osdisk", ".", "vhd">>]}

NoNode == [name |-> <<>>, vhd_uri |-> <<>>]

ExpectedTemplate ==
    <<[type |-> NSG, dependsOn |-> <<>>],
      [type |-> VNET, dependsOn |-> <<NSGEdge, OtherEdge>>],
      [type |-> VM, dependsOn |-> <<>>]>>

NoParameters == [k \in {} |-> 0]

NoMutation ==
    [ran |-> FALSE, before |-> <<>>, after |-> <<>>, raised |-> FALSE, removed |-> <<>>]

\* The record of a run of prepare_template_for_scale_up: the template before and
\* after, whether pop raised, and the types of the resources popped so far.
Mutation(before, prepared) ==
    [ran |-> TRUE, before |-> before, after |-> prepared.resources,
     raised |-> prepared.raised,
     removed |-> IF prepared.raised THEN last_mutation.removed
                 ELSE Append(last_mutation.removed,
                             PyPopped(before, NsgResourceIndex(before)).type)]

\* A parameter of the template that is no pool's Count or Offset.
MasterCount == <<"master", "Count">>

\* The parameters file: the masters' Count and one Count per pool.
InitialParameters(pools) ==
    [k \in {MasterCount} \cup {<<n, "Count">> : n \in Names(pools)} |->
        IF k = MasterCount THEN 1 ELSE PoolOf(pools, k[1]).actual_capacity]

NoDisk == [account_name |-> <<>>, container_name |-> <<>>, blob_name |-> <<>>]

NoFrame ==
    [entry |-> None, trim_map |-> NoParameters, new_pool_sizes |-> NoParameters,
     candidate |-> NoParameters,
     dry_run |-> FALSE, is_scale_up |-> FALSE, has_changes |-> FALSE,
     pool |-> 0, iter |-> 0, reclaimed |-> {}, submitted |-> 0, waiting |-> 0,
     error |-> None]

NoDeleteFrame ==
    [pool_sizes |-> NoParameters, waiting |-> 0, error |-> None, retried |-> FALSE]

\* main stands in its first call of cluster.scale_loop, with the default --sleep.
InScaleLoop ==
    /\ sleep = DefaultSleep
    /\ backoff = sleep
    /\ scaled = FALSE
    /\ outcome = None
    /\ m_pc = "scale_loop"
    /\ slept = 0
    /\ misses = 0
    /\ was_reset = FALSE

\* ---------------------------------------------------------------- init

Init ==
    /\ is_acs_engine \in BOOLEAN
    /\ deferred \in BOOLEAN
    /\ agent_pools \in PoolConfigs
    /\ node = NoNode
    /\ arm_template = IF is_acs_engine THEN ExpectedTemplate ELSE <<>>
    /\ arm_parameters = IF is_acs_engine THEN InitialParameters(agent_pools)
                        ELSE NoParameters
    /\ last_mutation = NoMutation
    /\ s_pc = "idle"
    /\ frame = NoFrame
    /\ d_pc = "idle"
    /\ d_frame = NoDeleteFrame
    /\ queue = <<>>
    /\ current_deployment = 0
    /\ inflight = {}
    /\ results = NoParameters
    /\ vm_exists = TRUE
    /\ nics_deleted = {}
    /\ blobs_deleted = {}
    /\ instance_count = agent_pools[1].actual_capacity
    /\ faulted = FALSE
    /\ InScaleLoop

\* ---------------------------------------------------------------- serializer

\* An operation handed to deployments.deploy: the closure and the pool-size snapshot.
Operation(id, kind, by, for_pool, sizes, candidate, is_scale_up, pool_sizes) ==
    [id |-> id, kind |-> kind, by |-> by, for_pool |-> for_pool, sizes |-> sizes,
     candidate |-> candidate, is_scale_up |-> is_scale_up, pool_sizes |-> pool_sizes,
     pc |-> "queued", size |-> 0, parameters |-> NoParameters, rerun |-> FALSE,
     disk |-> NoDisk, nic |-> <<>>, trace |-> <<>>]

\* Operation ids: the resize of the i-th pool, the one redeploy of a pass, the
\* teardown of the first delete_node call and of its retry.
ResizeId(i) == i
RedeployId == ResizeId(1)
TeardownId(retry) == Len(PoolNames) + (IF retry THEN 2 ELSE 1)

\* deployments.deploy(operation, pool_sizes): the operation waits its turn.
deploy(st, op) == [st EXCEPT !.queue = Append(@, op)]

\* Mutant of DeleteNodeCall: the teardown runs at once, outside the serializer.
DeleteNodeDirect(st, op) ==
    [st EXCEPT !.inflight = @ \cup {[op EXCEPT !.pc = "read_disk"]}]

\* self.deployments.deploy(lambda: self.delete_resources_for_node(node), pool_sizes)
DeleteNodeCall(st, op) == deploy(st, op)

\* self.deployments.deploy(lambda: self.set_desired_acs_agent_pool_capacity(...), ...)
ResizeCall(st, op) == deploy(st, op)

\* self.deployments.deploy(lambda: self.deploy_pools(...), new_pool_sizes)
RedeployCall(st, op) == deploy(st, op)

Serializer == [queue |-> queue, inflight |-> inflight]

\* The operation ends (completed or failed): the serializer is released.
Ends(o, last, how) ==
    /\ inflight' = inflight \ {o}
    /\ current_deployment' = IF current_deployment = o.id THEN 0 ELSE current_deployment
    /\ results' = results @@ (o.id :> [last EXCEPT !.pc = how])

Finish(o, how) == Ends(o, o, how)

Advance(o, new) == inflight' = (inflight \ {o}) \cup {new}

\* ---------------------------------------------------------------- scale_down / scale_pools

\* new_agent_count = pool.actual_capacity - trim_map[pool.name]
NewAgentCount(pool, trim_map) == pool.actual_capacity - trim_map[pool.name]

\* if new_agent_count <= 0: raise
BelowOneAgent(new_agent_count) == new_agent_count <= 0

\* Mutant of ScaleDownRaises: only the last pool is checked.
ScaleDownRaisesLast(pools, trim_map) ==
    BelowOneAgent(NewAgentCount(pools[Len(pools)], trim_map))

\* scale_down raises at the first pool whose new count is below one agent.
ScaleDownRaises(pools, trim_map) ==
    \E i \in 1..Len(pools) : BelowOneAgent(NewAgentCount(pools[i], trim_map))

ScaleDownSizes(pools, trim_map) ==
    [n \in Names(pools) |-> NewAgentCount(PoolOf(pools, n), trim_map)]

\* new_pool_sizes[pool.name] = min(pool.max_size, new_size)
ClampedSize(pool, new_size) == Min(pool.max_size, new_size)

ClampedSizes(pools, new_pool_sizes) ==
    [n \in Names(pools) |-> ClampedSize(PoolOf(pools, n), new_pool_sizes[n])]

\* has_changes after the first loop of scale_pools
HasChanges(pools, clamped) ==
    \E i \in 1..Len(pools) : clamped[pools[i].name] # pools[i].actual_capacity

\* The pools on which reclaim_unschedulable_nodes(new_size) is called.
Reclaimed(pools, new_pool_sizes, dry_run) ==
    {pools[i].name : i \in
        {j \in 1..Len(pools) :
            /\ ClampedSize(pools[j], new_pool_sizes[pools[j].name])
                  # pools[j].actual_capacity
            /\ ~dry_run
            /\ new_pool_sizes[pools[j].name] > pools[j].actual_capacity}}

\* Mutant of ShouldDeploy: the dry_run flag is not consulted.
ShouldDeployIgnoringDryRun(dry_run, has_changes) == has_changes

\* Mutant of ShouldDeploy: the has_changes flag is not consulted.
ShouldDeployIgnoringChanges(dry_run, has_changes) == ~dry_run

\* if not dry_run and has_changes:
ShouldDeploy(dry_run, has_changes) == ~dry_run /\ has_changes

\* The body of scale_pools up to the routing by topology.
EnterScalePools(entry, trim_map, new_pool_sizes, dry_run, is_scale_up) ==
    LET clamped == ClampedSizes(agent_pools, new_pool_sizes)
        has_changes == HasChanges(agent_pools, clamped)
    IN  /\ frame' = [NoFrame EXCEPT
                       !.entry = entry,
                       !.trim_map = trim_map,
                       !.candidate = new_pool_sizes,
                       !.new_pool_sizes = clamped,
                       !.dry_run = dry_run,
                       !.is_scale_up = is_scale_up,
                       !.has_changes = has_changes,
                       !.pool = Len(agent_pools),
                       !.reclaimed = Reclaimed(agent_pools, new_pool_sizes, dry_run)]
        /\ s_pc' = IF ShouldDeploy(dry_run, has_changes) THEN "deploy" ELSE "done"

\* Sizes an intent may carry: from zero to one above the largest max_size.
Candidates == 0..(MaxCap + 1)
Trims == 0..MaxCap

\* scale_down(trim_map, dry_run)
scale_down ==
    /\ s_pc = "idle"
    /\ \E trim_map \in [Names(agent_pools) -> Trims], dry_run \in BOOLEAN :
          IF ScaleDownRaises(agent_pools, trim_map)
          THEN /\ s_pc' = "raised"
               /\ frame' = [NoFrame EXCEPT !.entry = "scale_down",
                                           !.trim_map = trim_map,
                                           !.dry_run = dry_run,
                                           !.error = "InvalidScaleDown"]
          ELSE EnterScalePools("scale_down", trim_map,
                               ScaleDownSizes(agent_pools, trim_map), dry_run, FALSE)
    /\ UNCHANGED <<loop, config, template, d_pc, d_frame, queue, current_deployment,
                   inflight, results, provider, instance_count, faulted>>

\* scale_pools(new_pool_sizes, dry_run, True), the scale-up entry
scale_pools ==
    /\ s_pc = "idle"
    /\ \E new_pool_sizes \in [Names(agent_pools) -> Candidates], dry_run \in BOOLEAN :
          EnterScalePools("scale_pools", NoParameters, new_pool_sizes, dry_run, TRUE)
    /\ UNCHANGED <<loop, config, template, d_pc, d_frame, queue, current_deployment,
                   inflight, results, provider, instance_count, faulted>>

\* Fixed topology: the next iteration of the loop over the pools submits a resize.
SubmitResize ==
    /\ s_pc = "deploy"
    /\ ~is_acs_engine
    /\ frame.iter < Len(agent_pools)
    /\ LET i == frame.iter + 1
           op == Operation(ResizeId(i), "resize", "scaler", agent_pools[i].name,
                           frame.new_pool_sizes, frame.candidate, frame.is_scale_up,
                           frame.new_pool_sizes)
           st == ResizeCall(Serializer, op)
       IN  /\ queue' = st.queue
           /\ inflight' = st.inflight
           /\ frame' = [frame EXCEPT !.iter = i, !.pool = i, !.submitted = @ + 1,
                                     !.waiting = ResizeId(i)]
           /\ s_pc' = IF ~deferred THEN "wait"
                      ELSE IF i = Len(agent_pools) THEN "done" ELSE "deploy"
    /\ UNCHANGED <<loop, config, template, d_pc, d_frame, current_deployment, results,
                   provider, instance_count, faulted>>

\* Templated topology: one redeploy for all the pools.
SubmitRedeploy ==
    /\ s_pc = "deploy"
    /\ is_acs_engine
    /\ LET op == Operation(RedeployId, "redeploy", "scaler", None,
                           frame.new_pool_sizes, frame.candidate, frame.is_scale_up,
                           frame.new_pool_sizes)
           st == RedeployCall(Serializer, op)
       IN  /\ queue' = st.queue
           /\ inflight' = st.inflight
           /\ frame' = [frame EXCEPT !.submitted = @ + 1, !.waiting = RedeployId]
           /\ s_pc' = IF ~deferred THEN "wait" ELSE "done"
    /\ UNCHANGED <<loop, config, template, d_pc, d_frame, current_deployment, results,
                   provider, instance_count, faulted>>

\* Blocking serializer: deploy returns the operation's result or error unchanged.
DeployReturns ==
    /\ s_pc = "wait"
    /\ frame.waiting \in DOMAIN results
    /\ IF results[frame.waiting].pc = "failed"
       THEN /\ s_pc' = "raised"
            /\ frame' = [frame EXCEPT !.error = "ProviderError"]
       ELSE /\ s_pc' = IF is_acs_engine \/ frame.iter = Len(agent_pools)
                       THEN "done" ELSE "deploy"
            /\ frame' = frame
    /\ UNCHANGED <<loop, config, template, d_pc, d_frame, queue, current_deployment,
                   inflight, results, provider, instance_count, faulted>>

\* ---------------------------------------------------------------- delete_node

\* pool_sizes of delete_node: the loop variable shadows the pool argument, so the
\* decrement lands on the pool the loop ended with.
DeleteNodeSizes(pools, pool) ==
    [n \in Names(pools) |->
        IF n = pools[Len(pools)].name
        THEN pools[Len(pools)].actual_capacity - 1
        ELSE PoolOf(pools, n).actual_capacity]

\* The teardown of the latest delete_node call has failed.
TeardownFailed ==
    /\ d_frame.waiting \in DOMAIN results
    /\ results[d_frame.waiting].pc = "failed"

\* delete_node(pool, node): the first call for a node, or the one retry after a
\* teardown that failed.
delete_node ==
    /\ d_pc = "idle"
    /\ \/ d_frame.waiting = 0 /\ node' \in Nodes
       \/ TeardownFailed /\ ~d_frame.retried /\ node' = node
    /\ \E i \in 1..Len(agent_pools) :
          LET pool_sizes == DeleteNodeSizes(agent_pools, agent_pools[i])
              op == Operation(TeardownId(d_frame.waiting # 0), "teardown", "deleter", agent_pools[i].name,
                              pool_sizes, pool_sizes, FALSE, pool_sizes)
              st == DeleteNodeCall(Serializer, op)
          IN  /\ queue' = st.queue
              /\ inflight' = st.inflight
              /\ d_frame' = [NoDeleteFrame EXCEPT !.pool_sizes = pool_sizes,
                                                  !.waiting = TeardownId(d_frame.waiting # 0),
                                                  !.retried = d_frame.waiting # 0]
    /\ d_pc' = IF deferred THEN "idle" ELSE "wait"
    /\ UNCHANGED <<loop, is_acs_engine, deferred, agent_pools, template, s_pc, frame, current_deployment, results, provider,
                   instance_count, faulted>>

\* Blocking serializer: delete_node returns, or raises what the teardown raised.
DeleteNodeReturns ==
    /\ d_pc = "wait"
    /\ d_frame.waiting \in DOMAIN results
    /\ d_pc' = "idle"
    /\ d_frame' = [d_frame EXCEPT
                     !.error = IF results[d_frame.waiting].pc = "failed"
                               THEN "ProviderError" ELSE None]
    /\ UNCHANGED <<loop, config, template, s_pc, frame, queue, current_deployment,
                   inflight, results, provider, instance_count, faulted>>

\* ---------------------------------------------------------------- operations

\* The lambda of the fixed path reads new_pool_sizes[pool.name] when it is called:
\* pool is the loop variable of scale_pools as it stands at that moment.
ResizeArgument(fr, pools) == fr.new_pool_sizes[pools[fr.pool].name]

\* The serializer starts the resize at the head of the queue:
\* set_desired_acs_agent_pool_capacity up to the create_or_update call.
set_desired_acs_agent_pool_capacity ==
    /\ queue # <<>>
    /\ current_deployment = 0
    /\ Head(queue).kind = "resize"
    /\ LET o == Head(queue)
           size == ResizeArgument(frame, agent_pools)
       IN  /\ inflight' = inflight \cup {[o EXCEPT !.pc = "call", !.size = size]}
           /\ instance_count' = size
           /\ current_deployment' = o.id
    /\ queue' = Tail(queue)
    /\ UNCHANGED <<loop, config, template, s_pc, frame, d_pc, d_frame, results,
                   provider, faulted>>

\* Mutant of WritesOffset: Offset is written for every pool of a scale-up.
WritesOffsetOnScaleUp(pool, new_pool_sizes, is_scale_up) == is_scale_up

\* if is_scale_up and pool.actual_capacity < new_pool_sizes[pool.name]:
WritesOffset(pool, new_pool_sizes, is_scale_up) ==
    is_scale_up /\ pool.actual_capacity < new_pool_sizes[pool.name]

\* Mutant of CountWritten: Count is the size the pool has now.
CountWrittenActual(pool, new_pool_sizes) == pool.actual_capacity

\* self.arm_parameters[pool.name + 'Count'] = {'value': new_pool_sizes[pool.name]}
CountWritten(pool, new_pool_sizes) == new_pool_sizes[pool.name]

\* Mutant of RunsMutator: the template is prepared on every redeploy.
RunsMutatorAlways(is_scale_up) == TRUE

\* if is_scale_up: self.prepare_template_for_scale_up(self.arm_template)
RunsMutator(is_scale_up) == is_scale_up

\* The parameters deploy_pools writes: Offset on a growing pool of a scale-up,
\* Count on every pool.
DeployPoolsParameters(parameters, pools, new_pool_sizes, is_scale_up) ==
    LET offsets == {<<pools[i].name, "Offset">> : i \in
                      {j \in 1..Len(pools) :
                          WritesOffset(pools[j], new_pool_sizes, is_scale_up)}}
        counts == {<<pools[i].name, "Count">> : i \in 1..Len(pools)}
    IN  [k \in DOMAIN parameters \cup offsets \cup counts |->
            IF k \in counts THEN CountWritten(PoolOf(pools, k[1]), new_pool_sizes)
            ELSE IF k \in offsets THEN PoolOf(pools, k[1]).actual_capacity
            ELSE parameters[k]]

\* The serializer starts the redeploy at the head of the queue:
\* deploy_pools up to the create_or_update call.
deploy_pools ==
    /\ queue # <<>>
    /\ current_deployment = 0
    /\ Head(queue).kind = "redeploy"
    /\ LET o == Head(queue)
           parameters == DeployPoolsParameters(arm_parameters, agent_pools, o.sizes,
                                               o.is_scale_up)
           prepared == IF RunsMutator(o.is_scale_up)
                       THEN prepare_template_for_scale_up(arm_template)
                       ELSE [resources |-> arm_template, raised |-> FALSE]
       IN  /\ arm_parameters' = parameters
           /\ arm_template' = prepared.resources
           /\ last_mutation' = IF RunsMutator(o.is_scale_up)
                                THEN Mutation(arm_template, prepared)
                                ELSE last_mutation
           /\ IF prepared.raised
              THEN /\ results' = results @@
                                   (o.id :> [o EXCEPT !.pc = "failed",
                                                      !.parameters = parameters])
                   /\ UNCHANGED <<inflight, current_deployment>>
              ELSE /\ inflight' = inflight \cup
                                    {[o EXCEPT !.pc = "call", !.parameters = parameters]}
                   /\ current_deployment' = o.id
                   /\ UNCHANGED results
    /\ queue' = Tail(queue)
    /\ UNCHANGED <<loop, config, s_pc, frame, d_pc, d_frame, provider,
                   instance_count, faulted>>

\* The serializer starts the teardown at the head of the queue.
delete_resources_for_node ==
    /\ queue # <<>>
    /\ current_deployment = 0
    /\ Head(queue).kind = "teardown"
    /\ LET o == Head(queue)
       IN  /\ inflight' = inflight \cup
                            {[o EXCEPT !.pc = "read_disk", !.rerun = ~vm_exists]}
           /\ current_deployment' = o.id
    /\ queue' = Tail(queue)
    /\ UNCHANGED <<loop, config, template, s_pc, frame, d_pc, d_frame, results,
                   provider, instance_count, faulted>>

\* create_or_update returns: the resize or redeploy completed.
CallCompletes ==
    /\ \E o \in inflight :
          /\ o.pc = "call"
          /\ Finish(o, "ok")
    /\ UNCHANGED <<loop, config, template, s_pc, frame, d_pc, d_frame, queue, provider, instance_count, faulted>>

\* The provider reports a failure where the code blocks on it: create_or_update,
\* delete_vm_op.wait(), delete_nic_op.wait(). The error ends the operation.
ProviderFault ==
    /\ ~faulted
    /\ \E o \in inflight :
          /\ o.pc \in {"call", "vm_wait", "nic_wait"}
          /\ Finish(o, "failed")
    /\ faulted' = TRUE
    /\ UNCHANGED <<loop, config, template, s_pc, frame, d_pc, d_frame, queue, provider, instance_count>>

\* ---------------------------------------------------------------- teardown

\* Mutant of TeardownNext: the NIC deletion is issued without waiting for the VM.
TeardownNextNoWait(pc) ==
    CASE pc = "read_disk" -> "vm_delete"
      [] pc = "vm_delete" -> "nic_delete"
      [] pc = "nic_delete" -> "nic_wait"
      [] pc = "nic_wait" -> "blob_delete"
      [] OTHER -> "ok"

\* The order of the statements of delete_resources_for_node.
TeardownNext(pc) ==
    CASE pc = "read_disk" -> "vm_delete"
      [] pc = "vm_delete" -> "vm_wait"
      [] pc = "vm_wait" -> "nic_delete"
      [] pc = "nic_delete" -> "nic_wait"
      [] pc = "nic_wait" -> "blob_delete"
      [] OTHER -> "ok"

Step(o) == [o EXCEPT !.pc = TeardownNext(o.pc), !.trace = Append(@, o.pc)]

TeardownFrame == <<loop, config, template, s_pc, frame, d_pc, d_frame, queue, instance_count, faulted>>

\* virtual_machines.get and the split of the vhd uri; the get of a deleted
\* instance raises.
ReadDisk ==
    /\ \E o \in inflight :
          /\ o.pc = "read_disk"
          /\ IF vm_exists
             THEN /\ Advance(o, [Step(o) EXCEPT !.disk = DiskLocation(node.vhd_uri)])
                  /\ UNCHANGED <<current_deployment, results>>
             ELSE Finish(o, "failed")
    /\ UNCHANGED <<TeardownFrame, provider>>

\* resources.delete(... 'virtualMachines', node.name ...)
DeleteVm ==
    /\ \E o \in inflight :
          /\ o.pc = "vm_delete"
          /\ Advance(o, Step(o))
    /\ UNCHANGED <<TeardownFrame, provider, current_deployment, results>>

\* delete_vm_op.wait()
WaitVm ==
    /\ \E o \in inflight :
          /\ o.pc = "vm_wait"
          /\ Advance(o, Step(o))
    /\ vm_exists' = FALSE
    /\ UNCHANGED <<TeardownFrame, nics_deleted, blobs_deleted, current_deployment, results>>

\* nic_name from the node's name; resources.delete(... 'networkInterfaces', nic_name ...)
DeleteNic ==
    /\ \E o \in inflight :
          /\ o.pc = "nic_delete"
          /\ IF Len(Split(node.name, "-")) >= 4
             THEN /\ Advance(o, [Step(o) EXCEPT !.nic = NicName(Split(node.name, "-"))])
                  /\ UNCHANGED <<current_deployment, results>>
             ELSE Finish(o, "failed")
    /\ UNCHANGED <<TeardownFrame, provider>>

\* delete_nic_op.wait()
WaitNic ==
    /\ \E o \in inflight :
          /\ o.pc = "nic_wait"
          /\ Advance(o, Step(o))
          /\ nics_deleted' = nics_deleted \cup {o.nic}
    /\ UNCHANGED <<TeardownFrame, vm_exists, blobs_deleted, current_deployment, results>>

\* list_keys(resource_group, account_name), then
\* block_blob_service.delete_blob(container_name, blob_name): the teardown is over.
DeleteBlob ==
    /\ \E o \in inflight :
          /\ o.pc = "blob_delete"
          /\ Ends(o, Step(o), "ok")
          /\ blobs_deleted' = blobs_deleted \cup {o.disk}
    /\ UNCHANGED <<TeardownFrame, vm_exists, nics_deleted>>

\* ---------------------------------------------------------------- specification

Next ==
    \/ scale_down
    \/ scale_pools
    \/ SubmitResize
    \/ SubmitRedeploy
    \/ DeployReturns
    \/ delete_node
    \/ DeleteNodeReturns
    \/ set_desired_acs_agent_pool_capacity
    \/ deploy_pools
    \/ delete_resources_for_node
    \/ CallCompletes
    \/ ProviderFault
    \/ ReadDisk
    \/ DeleteVm
    \/ WaitVm
    \/ DeleteNic
    \/ WaitNic
    \/ DeleteBlob

Spec == Init /\ [][Next]_vars

\* ---------------------------------------------------------------- Template Mutator alone

\* dependsOn lists of up to n edges.
Dependencies(n) == UNION {[1..k -> {NSGEdge, OtherEdge}] : k \in 0..n}

Resources ==
    {[type |-> NSG, dependsOn |-> <<>>]}
    \cup {[type |-> VNET, dependsOn |-> d] : d \in Dependencies(MaxLen - 1)}
    \cup {[type |-> VM, dependsOn |-> d] : d \in {<<>>, <<NSGEdge>>}}

\* Templates of up to MaxLen resources.
Templates == UNION {[1..k -> Resources] : k \in 0..MaxLen}

InitTemplate ==
    /\ is_acs_engine = TRUE
    /\ deferred = FALSE
    /\ agent_pools = <<[name |-> PoolNames[1], actual_capacity |-> 1, max_size |-> 1]>>
    /\ node = NoNode
    /\ arm_template \in Templates
    /\ arm_parameters = InitialParameters(agent_pools)
    /\ last_mutation = NoMutation
    /\ s_pc = "idle"
    /\ frame = NoFrame
    /\ d_pc = "idle"
    /\ d_frame = NoDeleteFrame
    /\ queue = <<>>
    /\ current_deployment = 0
    /\ inflight = {}
    /\ results = NoParameters
    /\ vm_exists = TRUE
    /\ nics_deleted = {}
    /\ blobs_deleted = {}
    /\ instance_count = 1
    /\ faulted = FALSE
    /\ InScaleLoop

\* prepare_template_for_scale_up(self.arm_template), on the template as the
\* previous run left it; a run that raised ends the sequence.
MutateTemplate ==
    /\ ~last_mutation.raised
    /\ LET prepared == prepare_template_for_scale_up(arm_template)
       IN  /\ arm_template' = prepared.resources
           /\ last_mutation' = Mutation(arm_template, prepared)
    /\ UNCHANGED <<loop, config, arm_parameters, s_pc, frame, d_pc, d_frame, queue,
                   current_deployment, inflight, results, provider, instance_count,
                   faulted>>

NextTemplate == MutateTemplate

SpecTemplate == InitTemplate /\ [][NextTemplate]_vars

\* ---------------------------------------------------------------- main: the outer loop

\* Everything but the loop's own variables.
program == <<config, template, s_pc, frame, d_pc, d_frame, queue, current_deployment,
             inflight, results, provider, instance_count, faulted>>

\* How a pass ends: it scaled, every pool was at target, it was a dry run, or it
\* failed (scale-down violation, provider error).
PassOutcomes == {"scaled", "no_op", "dry_run", "failed"}

InitLoop ==
    /\ is_acs_engine = FALSE
    /\ deferred = FALSE
    /\ agent_pools = <<[name |-> PoolNames[1], actual_capacity |-> 1, max_size |-> 1]>>
    /\ node = NoNode
    /\ arm_template = <<>>
    /\ arm_parameters = NoParameters
    /\ last_mutation = NoMutation
    /\ s_pc = "idle"
    /\ frame = NoFrame
    /\ d_pc = "idle"
    /\ d_frame = NoDeleteFrame
    /\ queue = <<>>
    /\ current_deployment = 0
    /\ inflight = {}
    /\ results = NoParameters
    /\ vm_exists = TRUE
    /\ nics_deleted = {}
    /\ blobs_deleted = {}
    /\ instance_count = 1
    /\ faulted = FALSE
    /\ sleep \in 1..MaxSleep
    /\ backoff = sleep
    /\ scaled = FALSE
    /\ outcome = None
    /\ m_pc = "scale_loop"
    /\ slept = 0
    /\ misses = 0
    /\ was_reset = FALSE

\* scaled = cluster.scale_loop(debug): the pass reports whether it scaled; a
\* failed pass reports that it did not. Runs of passes that do not scale are
\* at most MaxMisses long.
scale_loop ==
    /\ m_pc = "scale_loop"
    /\ \E how \in PassOutcomes :
          /\ how # "scaled" => misses < MaxMisses
          /\ outcome' = how
          /\ scaled' = (how = "scaled")
    /\ m_pc' = "returned"
    /\ UNCHANGED <<program, sleep, backoff, slept, misses, was_reset>>

\* Mutant of WhileTrue: the loop goes on only after a pass that scaled.
WhileScaled(has_scaled) == IF has_scaled THEN "scale_loop" ELSE "exit"

\* while True: the next iteration calls scale_loop again.
WhileTrue(has_scaled) == "scale_loop"

\* Mutant of Doubled: the interval grows by one base interval.
DoubledAdding(interval, base) == interval + base

\* backoff *= 2
Doubled(interval, base) == interval * 2

\* if scaled: time.sleep(sleep)
SleepBase ==
    /\ m_pc = "returned"
    /\ scaled
    /\ slept' = sleep
    /\ m_pc' = "sleep_base"
    /\ UNCHANGED <<program, sleep, backoff, scaled, outcome, misses, was_reset>>

\* backoff = sleep, once time.sleep(sleep) has returned
ResetBackoff ==
    /\ m_pc = "sleep_base"
    /\ backoff' = sleep
    /\ misses' = 0
    /\ was_reset' = TRUE
    /\ m_pc' = WhileTrue(scaled)
    /\ UNCHANGED <<program, sleep, scaled, outcome, slept>>

\* else: backoff *= 2; time.sleep(backoff)
SleepBackoff ==
    /\ m_pc = "returned"
    /\ ~scaled
    /\ backoff' = Doubled(backoff, sleep)
    /\ slept' = backoff'
    /\ misses' = misses + 1
    /\ m_pc' = "sleep_backoff"
    /\ UNCHANGED <<program, sleep, scaled, outcome, was_reset>>

\* time.sleep(backoff) returns
WakeUp ==
    /\ m_pc = "sleep_backoff"
    /\ m_pc' = WhileTrue(scaled)
    /\ UNCHANGED <<program, sleep, backoff, scaled, outcome, slept, misses, was_reset>>

NextLoop ==
    \/ scale_loop
    \/ SleepBase
    \/ ResetBackoff
    \/ SleepBackoff
    \/ WakeUp

SpecLoop == InitLoop /\ [][NextLoop]_vars

\* Every call returns and every sleep ends: the loop keeps taking its next step.
SpecLoopFair == SpecLoop /\ WF_vars(NextLoop)

\* ---------------------------------------------------------------- claims

QueuedOps == {queue[i] : i \in 1..Len(queue)}
EndedOps == {results[id] : id \in DOMAIN results}
AllOps == QueuedOps \cup inflight \cup EndedOps
ScalerOps == {o \in AllOps : o.by = "scaler"}
TeardownOps == {o \in inflight \cup EndedOps : o.kind = "teardown"}
IssuedCalls == {o \in inflight : o.pc = "call"}

\* No operation of the pass was handed to the serializer.
NoScalerCall == frame.submitted = 0 /\ ScalerOps = {}

\* The template, its parameters and the fixed pool's count are as constructed.
NothingModified ==
    /\ arm_template = (IF is_acs_engine THEN ExpectedTemplate ELSE <<>>)
    /\ arm_parameters = (IF is_acs_engine THEN InitialParameters(agent_pools)
                         ELSE NoParameters)
    /\ instance_count = agent_pools[1].actual_capacity

\* C1: at most one capacity-mutating operation (resize, redeploy, teardown) is in
\* flight at any instant, and the one in flight is the one that holds the
\* serializer, also when scale_pools and delete_node are triggered concurrently.
MutualExclusion ==
    /\ Cardinality(inflight) <= 1
    /\ \A o \in inflight : current_deployment = o.id

\* C1 witness: a teardown is in flight while an operation of the pass waits.
ScalerWaitsBehindTeardown ==
    /\ \E o \in inflight : o.kind = "teardown" /\ o.pc = "vm_wait"
    /\ queue # <<>>
    /\ Head(queue).by = "scaler"

\* Every pool's requested size, clamped to max_size, is its actual capacity.
AtTarget(pools, sizes) ==
    \A i \in 1..Len(pools) :
        (IF sizes[pools[i].name] > pools[i].max_size THEN pools[i].max_size
         ELSE sizes[pools[i].name]) = pools[i].actual_capacity

PassEntered == DOMAIN frame.candidate = Names(agent_pools)

\* C2: a scale_pools pass whose clamped target equals actual_capacity for every
\* pool submits no resize or redeploy and changes no pool, whatever the topology
\* and the dry_run flag.
NoOpPassIssuesNothing ==
    (PassEntered /\ AtTarget(agent_pools, frame.candidate))
        => (NoScalerCall /\ NothingModified /\ frame.reclaimed = {})

\* C2 witness: a real (not dry) pass ended with every pool at target, one of them
\* only after clamping.
NoOpPassEnded ==
    /\ s_pc = "done"
    /\ ~frame.dry_run
    /\ PassEntered
    /\ AtTarget(agent_pools, frame.candidate)
    /\ \E n \in Names(agent_pools) : frame.candidate[n] > PoolOf(agent_pools, n).max_size

\* Some pool would be trimmed to zero agents or fewer.
TrimsBelowOne(pools, trim_map) ==
    \E i \in 1..Len(pools) : pools[i].actual_capacity - trim_map[pools[i].name] <= 0

\* C3: scale_down raises the scale-down violation whenever actual_capacity - trim
\* <= 0 for some pool, wherever that pool stands, and then no provider call is
\* issued for any pool.
ScaleDownBelowOneFails ==
    (frame.entry = "scale_down" /\ TrimsBelowOne(agent_pools, frame.trim_map))
        => (/\ s_pc = "raised"
            /\ frame.error = "InvalidScaleDown"
            /\ NoScalerCall
            /\ NothingModified)

\* C3 witness: the violating pool is the first of two; the last one has a valid trim.
ScaleDownRaisedOnFirstPool ==
    /\ s_pc = "raised"
    /\ frame.error = "InvalidScaleDown"
    /\ Len(agent_pools) = 2
    /\ agent_pools[1].actual_capacity - frame.trim_map[agent_pools[1].name] <= 0
    /\ frame.trim_map[agent_pools[2].name] = 1
    /\ agent_pools[2].actual_capacity - frame.trim_map[agent_pools[2].name] >= 1

\* C4: with dry_run set, scale_down and scale_pools submit no resize and no
\* redeploy and leave the template and its parameters as they were.
DryRunIssuesNothing ==
    frame.dry_run => (NoScalerCall /\ NothingModified)

\* C4 witness: a dry run ended on the templated topology with a pool off target.
DryRunWithChangesEnded ==
    /\ s_pc = "done"
    /\ frame.dry_run
    /\ frame.has_changes
    /\ is_acs_engine

\* C5 (as claimed): every size an issued resize or redeploy carries for a pool is
\* min(max_size, candidate) of that pool.
IssuedSizesAreClamped ==
    \A o \in IssuedCalls :
        /\ o.kind = "resize" =>
              o.size = Min(PoolOf(agent_pools, o.for_pool).max_size,
                           o.candidate[o.for_pool])
        /\ o.kind = "redeploy" =>
              \A n \in Names(agent_pools) :
                  o.parameters[<<n, "Count">>]
                      = Min(PoolOf(agent_pools, n).max_size, o.candidate[n])

\* C6 (as claimed): every size sent to the provider lies in 1..max_size.
IssuedSizesWithinBounds ==
    \A o \in IssuedCalls :
        /\ o.kind = "resize" =>
              /\ 1 <= o.size
              /\ o.size <= PoolOf(agent_pools, o.for_pool).max_size
        /\ o.kind = "redeploy" =>
              \A n \in Names(agent_pools) :
                  /\ 1 <= o.parameters[<<n, "Count">>]
                  /\ o.parameters[<<n, "Count">>] <= PoolOf(agent_pools, n).max_size

IsPrefix(t, u) == Len(t) <= Len(u) /\ \A i \in 1..Len(t) : t[i] = u[i]

TeardownOrder ==
    <<"read_disk", "vm_delete", "vm_wait", "nic_delete", "nic_wait", "blob_delete">>

\* Where the provider keeps the OS disk of each node.
OsDiskOf(name) ==
    IF name = K8sA12345N3
    THEN [account_name |-> <<"acct1">>, container_name |-> <<"vhds">>,
          blob_name |-> <<"k8s-a-3-osdisk", ".", "vhd">>]
    ELSE [account_name |-> <<"acct2">>, container_name |-> <<"osdisks">>,
          blob_name |-> <<"pool-a-3-osdisk", ".", "vhd">>]

Did(o, step) == step \in Range(o.trace)

NicOf(name) ==
    IF name = K8sA12345N3
    THEN <<"k8s", "-", "a", "-", "12345", "-", "nic", "-", "3">>
    ELSE <<"pool", "-", "a", "-", "12345", "-", "nic", "-", "vm">>

RerunCompletes ==
    \A o \in EndedOps : (o.kind = "teardown" /\ o.rerun) => o.pc = "ok"

\* list without its i-th element (i counted from 1)
RemoveAt(seq, i) == [j \in 1..(Len(seq) - 1) |-> IF j < i THEN seq[j] ELSE seq[j + 1]]

HasNsgResource(resources) == \E i \in 1..Len(resources) : resources[i].type = NSG

VnetsOnNsg(resources) ==
    {j \in 1..Len(resources) :
        resources[j].type = VNET /\ NSGEdge \in Range(resources[j].dependsOn)}

\* The template has a security group and one virtual network depending on it.
HasNsgAndVnetEdge(resources) ==
    HasNsgResource(resources) /\ Cardinality(VnetsOnNsg(resources)) = 1

\* C10: on a template with a security group and a virtual network depending on
\* it, the mutation removes exactly one resource, a security group, and exactly
\* one dependency, the virtual network's edge to the security group; all other
\* resources and dependencies stay as they were, in their order.
MutationRemovesNsgAndEdge ==
    (last_mutation.ran /\ HasNsgAndVnetEdge(last_mutation.before))
        => /\ ~last_mutation.raised
           /\ \E i, j \in 1..Len(last_mutation.before) :
                 /\ last_mutation.before[i].type = NSG
                 /\ last_mutation.before[j].type = VNET
                 /\ \E k \in 1..Len(last_mutation.before[j].dependsOn) :
                       /\ last_mutation.before[j].dependsOn[k] = NSGEdge
                       /\ last_mutation.after
                            = RemoveAt([last_mutation.before EXCEPT
                                          ![j].dependsOn = RemoveAt(@, k)], i)

\* C10 witness: the mutation ran on a three-resource template whose virtual
\* network lists the security group edge twice.
MutationRanOnExpectedShape ==
    /\ last_mutation.ran
    /\ HasNsgAndVnetEdge(last_mutation.before)
    /\ Len(last_mutation.before) = 3
    /\ \E j \in 1..3 : last_mutation.before[j].dependsOn = <<NSGEdge, NSGEdge>>

\* C11 (as claimed): on a template without a security group resource the
\* mutation raises an error and leaves the template as it was, no resource and
\* no dependency edge removed.
MutationWithoutNsgFails ==
    (last_mutation.ran /\ ~HasNsgResource(last_mutation.before))
        => (/\ last_mutation.raised
            /\ last_mutation.after = last_mutation.before)

\* C12 (as claimed): the pool-size snapshot delete_node(pool, node) hands to the
\* serializer gives the owning pool, the pool argument, actual_capacity - 1 and
\* every other pool its actual_capacity, wherever the owning pool stands.
TeardownSnapshotDecrementsOwner ==
    \A o \in AllOps :
        o.kind = "teardown" =>
            \A n \in Names(agent_pools) :
                o.pool_sizes[n] = PoolOf(agent_pools, n).actual_capacity
                                    - (IF n = o.for_pool THEN 1 ELSE 0)

\* C13: in the outer loop, after k consecutive passes that did not scale since
\* the interval was last the base --sleep value, the wait is base * 2^k, with
\* no upper cap; the wait after a pass that scaled is exactly base, and that
\* pass sets the interval back to base.
BackoffDoublesAndResets ==
    /\ m_pc = "sleep_backoff" => (slept = sleep * 2^misses /\ misses >= 1)
    /\ m_pc = "sleep_base" => slept = sleep
    /\ m_pc \in {"scale_loop", "returned"} => backoff = sleep * 2^misses
    /\ (m_pc = "scale_loop" /\ scaled) => backoff = sleep

\* C13 witness: after a reset, the wait following the second pass in a row that
\* did not scale, from a base interval above one.
SecondBackoffAfterReset ==
    /\ was_reset
    /\ m_pc = "sleep_backoff"
    /\ misses = 2
    /\ sleep = 2
    /\ slept = 8

ResizeOps == {o \in ScalerOps : o.kind = "resize"}

\* C15 (as claimed): on the fixed topology a resize is submitted for exactly
\* the pools whose clamped target differs from their actual_capacity, one per
\* such pool, and none for a pool already at its target.
ResizeOnlyForChangedPools ==
    /\ \A o \in ResizeOps :
          o.sizes[o.for_pool] # PoolOf(agent_pools, o.for_pool).actual_capacity
    /\ (~is_acs_engine /\ s_pc = "done" /\ frame.submitted > 0) =>
          \A n \in Names(agent_pools) :
              frame.new_pool_sizes[n] # PoolOf(agent_pools, n).actual_capacity
                  => Cardinality({o \in ResizeOps : o.for_pool = n}) = 1

\* C16 (as claimed): the resize submitted for a pool applies that pool's own
\* target size when it executes, whether it runs at once or after later
\* iterations of the loop have been submitted.
ResizeAppliesOwnTarget ==
    \A o \in inflight \cup EndedOps :
        o.kind = "resize" => o.size = o.sizes[o.for_pool]

RedeployOps == {o \in ScalerOps : o.kind = "redeploy"}

\* The redeploys whose deploy_pools has run.
StartedRedeploys == {o \in RedeployOps : o.pc # "queued"}

\* min(max_size, candidate) of the pool named n in the intent the operation carries
TargetOf(o, n) ==
    IF o.candidate[n] > PoolOf(agent_pools, n).max_size
    THEN PoolOf(agent_pools, n).max_size
    ELSE o.candidate[n]

\* C17: on the templated topology a pass that is not a dry run and has a pool off
\* its target submits exactly one redeploy, and the parameters of that redeploy
\* carry for every pool, changing or not, a Count equal to the pool's clamped
\* target.
OneRedeployWithAllCounts ==
    /\ Cardinality(RedeployOps) <= 1
    /\ (/\ is_acs_engine
        /\ PassEntered
        /\ ~frame.dry_run
        /\ ~AtTarget(agent_pools, frame.candidate)
        /\ s_pc # "deploy")
          => (frame.submitted = 1 /\ Cardinality(RedeployOps) = 1)
    /\ \A o \in StartedRedeploys :
          \A n \in Names(agent_pools) :
              /\ <<n, "Count">> \in DOMAIN o.parameters
              /\ o.parameters[<<n, "Count">>] = TargetOf(o, n)

\* C17 witness: the redeploy of a two-pool cluster is issued; one pool shrinks,
\* the other stays at its size, which is its clamped target.
RedeployIssuedForTwoPools ==
    \E o \in IssuedCalls :
        /\ o.kind = "redeploy"
        /\ Len(agent_pools) = 2
        /\ TargetOf(o, "a") < agent_pools[1].actual_capacity
        /\ TargetOf(o, "b") = agent_pools[2].actual_capacity
        /\ o.candidate["b"] > agent_pools[2].max_size

\* C18 (as claimed): a scale-up redeploy carries for each pool an Offset equal to
\* the pool's actual capacity; a scale-down redeploy carries no Offset.
EveryPoolHasOffsetOnScaleUp ==
    \A o \in StartedRedeploys :
        \A n \in Names(agent_pools) :
            IF o.is_scale_up
            THEN /\ <<n, "Offset">> \in DOMAIN o.parameters
                 /\ o.parameters[<<n, "Offset">>] = PoolOf(agent_pools, n).actual_capacity
            ELSE <<n, "Offset">> \notin DOMAIN o.parameters

\* C18 (amended): a scale-up redeploy writes an Offset for exactly the pools
\* that grow (actual capacity below the clamped target), equal to the pool's
\* actual capacity before the change; for the other pools of a scale-up, and
\* for every pool of a scale-down redeploy, no Offset is written.
OffsetOnGrowingPoolsOnly ==
    \A o \in StartedRedeploys :
        \A n \in Names(agent_pools) :
            IF o.is_scale_up /\ PoolOf(agent_pools, n).actual_capacity < TargetOf(o, n)
            THEN /\ <<n, "Offset">> \in DOMAIN o.parameters
                 /\ o.parameters[<<n, "Offset">>] = PoolOf(agent_pools, n).actual_capacity
            ELSE <<n, "Offset">> \notin DOMAIN o.parameters

\* C18 witness: a scale-up redeploy is issued in which pool a grows and pool b
\* does not.
ScaleUpRedeployWithOneGrowingPool ==
    \E o \in IssuedCalls :
        /\ o.kind = "redeploy"
        /\ o.is_scale_up
        /\ Len(agent_pools) = 2
        /\ agent_pools[1].actual_capacity < TargetOf(o, "a")
        /\ agent_pools[2].actual_capacity >= TargetOf(o, "b")

\* C19: a scale-down redeploy does not run the Template Mutator: the template's
\* resources and dependsOn lists stay as they were, and of the parameters only
\* the pools' Counts are rewritten.
ScaleDownRedeployKeepsTemplate ==
    \A o \in StartedRedeploys :
        ~o.is_scale_up =>
            /\ arm_template = ExpectedTemplate
            /\ last_mutation = NoMutation
            /\ DOMAIN arm_parameters = DOMAIN InitialParameters(agent_pools)
            /\ \A k \in DOMAIN arm_parameters :
                  arm_parameters[k] =
                      IF k[2] = "Count" /\ k[1] \in Names(agent_pools)
                      THEN TargetOf(o, k[1])
                      ELSE InitialParameters(agent_pools)[k]

\* C19 witness: a scale-down redeploy that shrinks a pool has completed.
ScaleDownRedeployCompleted ==
    \E o \in EndedOps :
        /\ o.kind = "redeploy"
        /\ o.pc = "ok"
        /\ ~o.is_scale_up
        /\ \E n \in Names(agent_pools) :
              arm_parameters[<<n, "Count">>] < PoolOf(agent_pools, n).actual_capacity

\* C20 (as claimed): over any sequence of scale-up mutations of the same
\* template whose first run removed the security group, every resource removed
\* is a security group: a later run removes no other resource.
OnlyNsgEverRemoved ==
    (Len(last_mutation.removed) >= 2 /\ last_mutation.removed[1] = NSG)
        => \A i \in 1..Len(last_mutation.removed) : last_mutation.removed[i] = NSG

====
